---- MODULE Spec2Model ----
(***************************************************************************)
(* Model of the MDM -> GLPI reconciliation engine                          *)
(* (services/sync_service.py) and of its request limiter                   *)
(* (utils/rate_limiter.py).                                                *)
(*                                                                         *)
(* Time is kept relative: a recorded request timestamp t is represented by *)
(* its age now - t, counted in ticks and saturated at time_window (an      *)
(* entry of age >= time_window is outside every window that ends now or    *)
(* later).  Tick moves the clock by one unit.                              *)
(***************************************************************************)
EXTENDS Integers, Sequences, FiniteSets, TLC

\* ------------------------------------------------------------------ bounds
NumCallers == 3
ConfMaxRequests == 1
ConfTimeWindow == 2
NumDevices == 3
NumHashes == 2
MaxRuns == 2
MaxIds == 2
ConfBatchSize == 2
MaxConsecutiveErrors == 5
MaxAge == 2
LongRunIds == 11
LongRuns == 1
NumRequests == 3
MaxSource == 5
PageSize == 2
MaxNameLen == 2
MaxModelLen == 1
MaxComputers == 3
MaxRows == 4
MaxClock == 8
MaxLimit == 3

\* ------------------------------------------------------- program constants
BackoffNum == 1
BackoffDen == 2
RecoveryNum == 11
RecoveryDen == 10
SuccessThreshold == 5
ErrorCap == 10
EngineMaxRequests == 30
BufferMinutes == 5

\* ------------------------------------------------------------- rate limiter
time_window == ConfTimeWindow

Engine == 0
Callers == 1..NumCallers
Tasks == {Engine} \cup Callers
NoTask == -1

Devices == 1..NumDevices
Hashes == 1..NumHashes
None == 0
NoRecord == [sync_status |-> "absent"]

VARIABLES
    requests,       \* RateLimiter.requests: ages of the recorded timestamps, oldest first
    max_requests,   \* RateLimiter.max_requests (the effective limit)
    lock,           \* RateLimiter._lock: the task holding it, or NoTask
    acq,            \* per task: where it stands inside acquire()
    granted,        \* history: ages (< time_window) of every timestamp ever recorded
    original_max_requests,  \* AdaptiveRateLimiter.original_max_requests
    consecutive_errors,     \* AdaptiveRateLimiter.consecutive_errors
    consecutive_successes,  \* AdaptiveRateLimiter.consecutive_successes
    sync_in_progress,       \* SyncService._sync_in_progress
    last_full_sync,         \* SyncService._last_full_sync: None, or the run whose end time it holds
    last_incremental_sync,  \* SyncService._last_incremental_sync, likewise
    sync_logs,              \* table sync_logs, in insertion order
    sync_records,           \* table sync_records, by mdm_device_id
    run,                    \* the locals of the _perform_sync call in progress
    rejected,               \* a _perform_sync call was rejected during the run in progress
    result                  \* what the last run returned or raised

rlvars == <<requests, max_requests, lock, acq, granted>>

adaptvars == <<original_max_requests, consecutive_errors, consecutive_successes>>

engvars == <<sync_in_progress, last_full_sync, last_incremental_sync, sync_logs,
             sync_records, run, rejected, result>>

vars == <<requests, max_requests, lock, acq, granted, original_max_requests,
          consecutive_errors, consecutive_successes, sync_in_progress, last_full_sync,
          last_incremental_sync, sync_logs, sync_records, run, rejected, result>>

Min(a, b) == IF a < b THEN a ELSE b
Max(a, b) == IF a > b THEN a ELSE b

\* requests[0] <= now - self.time_window, on ages
ExpiredEarly(age) == age >= time_window - 1
Expired(age) == age >= time_window

\* while self.requests and self.requests[0] <= now - self.time_window: popleft()
RECURSIVE Prune(_)
Prune(q) == IF q # <<>> /\ Expired(Head(q)) THEN Prune(Tail(q)) ELSE q

AcqIdle == [pc |-> "idle", wait |-> 0, depth |-> 0]

\* acquire() is called: the task reaches `async with self._lock`
AcquireCall(c) ==
    /\ acq[c].pc = "idle"
    /\ acq' = [acq EXCEPT ![c].pc = "lock"]
    /\ UNCHANGED <<requests, max_requests, lock, granted>>

\* asyncio.Lock: entered only while no task holds it
LockEnter(c) ==
    /\ acq[c].pc = "lock"
    /\ lock = NoTask
    /\ lock' = c
    /\ acq' = [acq EXCEPT ![c].pc = "body"]
    /\ UNCHANGED <<requests, max_requests, granted>>

\* the body of acquire(): prune, check, then sleep or record `now`
AcquireBodyOriginalLimit(c) ==
    /\ acq[c].pc = "body"
    /\ LET q == Prune(requests) IN
       IF Len(q) >= original_max_requests /\ time_window - Head(q) > 0
       THEN /\ requests' = q
            /\ acq' = [acq EXCEPT ![c].pc = "sleep",
                                  ![c].wait = time_window - Head(q)]
            /\ UNCHANGED granted
       ELSE /\ requests' = Append(q, 0)
            /\ granted' = Append(granted, 0)
            /\ acq' = [acq EXCEPT ![c].pc = "exit"]
    /\ UNCHANGED <<max_requests, lock>>
AcquireBody(c) ==
    /\ acq[c].pc = "body"
    /\ LET q == Prune(requests) IN
       IF Len(q) >= max_requests /\ time_window - Head(q) > 0
       THEN /\ requests' = q
            /\ acq' = [acq EXCEPT ![c].pc = "sleep",
                                  ![c].wait = time_window - Head(q)]
            /\ UNCHANGED granted
       ELSE /\ requests' = Append(q, 0)
            /\ granted' = Append(granted, 0)
            /\ acq' = [acq EXCEPT ![c].pc = "exit"]
    /\ UNCHANGED <<max_requests, lock>>

\* asyncio.sleep(wait_time) is over: `await self.acquire()` re-enters acquire
\* from inside the `async with` block
SleepDone(c) ==
    /\ acq[c].pc = "sleep"
    /\ acq[c].wait = 0
    /\ acq' = [acq EXCEPT ![c].pc = "lock", ![c].depth = @ + 1]
    /\ UNCHANGED <<requests, max_requests, lock, granted>>

\* leaving an `async with self._lock` block releases the lock; the innermost
\* call returns to the caller of acquire(), a nested one to its `return`
LockExit(c) ==
    /\ acq[c].pc = "exit"
    /\ lock' = NoTask
    /\ acq' = [acq EXCEPT ![c] = IF acq[c].depth = 0 THEN AcqIdle
                                 ELSE [pc |-> "exit", wait |-> 0,
                                       depth |-> acq[c].depth - 1]]
    /\ UNCHANGED <<requests, max_requests, granted>>

\* the clock moves by one unit
AgeSeq(q) == [i \in 1..Len(q) |-> Min(q[i] + 1, time_window)]
InWindow(age) == age < time_window
Tick ==
    /\ requests' = AgeSeq(requests)
    /\ granted' = SelectSeq(AgeSeq(granted), InWindow)
    /\ acq' = [c \in Tasks |-> [acq[c] EXCEPT !.wait = Max(0, @ - 1)]]
    /\ UNCHANGED <<max_requests, lock>>

\* AdaptiveRateLimiter.report_error: new_max = int(max_requests * backoff_factor)
BackedOffNoFloor(m) == (m * BackoffNum) \div BackoffDen
BackedOff(m) == Max(1, (m * BackoffNum) \div BackoffDen)

\* AdaptiveRateLimiter.report_success: int(max_requests * recovery_factor), capped
RecoveredUncapped(m) == (m * RecoveryNum) \div RecoveryDen
Recovered(m) == Min(original_max_requests, (m * RecoveryNum) \div RecoveryDen)

\* AdaptiveRateLimiter.report_error
report_error ==
    /\ consecutive_errors' = consecutive_errors + 1
    /\ consecutive_successes' = 0
    /\ max_requests' = BackedOff(max_requests)
    /\ UNCHANGED original_max_requests

\* AdaptiveRateLimiter.report_success
report_success ==
    /\ consecutive_errors' = 0
    /\ IF consecutive_successes + 1 >= SuccessThreshold
       THEN /\ max_requests' = Recovered(max_requests)
            /\ consecutive_successes' = 0
       ELSE /\ consecutive_successes' = consecutive_successes + 1
            /\ UNCHANGED max_requests
    /\ UNCHANGED original_max_requests

\* ------------------------------------------------------------------ engine
RunIdle ==
    [pc |-> "idle", sync_type |-> "none", device_ids |-> <<>>, log |-> 0,
     mdm_ok |-> FALSE, glpi_ok |-> FALSE, fetched |-> FALSE, query |-> "none",
     mdm_devices |-> <<>>, i |-> 0, k |-> 0,
     devices_processed |-> 0, devices_created |-> 0, devices_updated |-> 0,
     devices_failed |-> 0, errors |-> <<>>,
     processed |-> 0, created |-> 0, updated |-> 0, failed |-> 0,
     batch_errors |-> <<>>,
     calls |-> <<>>, actions |-> <<>>, records0 |-> <<>>, retry |-> FALSE]

NoResult ==
    [kind |-> "none", success |-> FALSE, devices_processed |-> 0,
     devices_created |-> 0, devices_updated |-> 0, devices_failed |-> 0,
     errors |-> <<>>]

\* SyncLog(sync_type=..., status=IN_PROGRESS, started_at=...); the counters
\* take the column default 0; started_at is kept as its age in days
NewSyncLog(t) ==
    [sync_type |-> t, status |-> "in_progress", devices_processed |-> 0,
     devices_created |-> 0, devices_updated |-> 0, devices_failed |-> 0,
     error_message |-> <<>>, completed |-> FALSE, started_age |-> 0]

\* if self._sync_in_progress: raise RuntimeError(...)
SyncAllowedAlways == TRUE
SyncAllowed == ~sync_in_progress

\* _perform_sync up to its first await: the exclusivity check, the flag and
\* the SyncLog row; retry tells whether retry_failed_devices made the call
StartSync(t, ids, retry) ==
    IF ~SyncAllowed
    THEN /\ rejected' = TRUE
         /\ UNCHANGED <<sync_in_progress, last_full_sync, last_incremental_sync,
                        sync_logs, sync_records, run, result>>
         /\ UNCHANGED rlvars
         /\ UNCHANGED adaptvars
    ELSE /\ Len(sync_logs) < MaxRuns
         /\ sync_in_progress' = TRUE
         /\ sync_logs' = Append(sync_logs, NewSyncLog(t))
         /\ run' = [RunIdle EXCEPT !.pc = "test_mdm", !.sync_type = t,
                                   !.device_ids = ids,
                                   !.log = Len(sync_logs) + 1,
                                   !.records0 = sync_records,
                                   !.retry = retry]
         /\ rejected' = FALSE
         /\ result' = NoResult
         /\ UNCHANGED <<last_full_sync, last_incremental_sync, sync_records>>
         /\ UNCHANGED rlvars
         /\ UNCHANGED adaptvars

PerformSync(t, ids) == StartSync(t, ids, FALSE)

\* the elements of a set of ids, in ascending order
RECURSIVE SetToSeq(_)
SetToSeq(S) ==
    IF S = {} THEN <<>>
    ELSE LET m == CHOOSE x \in S : \A y \in S : x <= y
         IN <<m>> \o SetToSeq(S \ {m})

IdLists == UNION {[1..n -> Devices] : n \in 0..MaxIds}

full_sync == PerformSync("full", <<>>)

incremental_sync == PerformSync("incremental", <<>>)

\* (a rejected call does not look at its arguments)
manual_sync ==
    \E ids \in (IF sync_in_progress THEN {<<>>} ELSE IdLists) : PerformSync("manual", ids)

\* retry_failed_devices: query(SyncRecord).filter_by(sync_status = FAILED),
\* narrowed to device_ids when some are given
AnyRecord(rec) == rec # NoRecord
FailedRecord(rec) == rec # NoRecord /\ rec.sync_status = "failed"

FailedDeviceIds(device_ids) ==
    {d \in Devices : /\ FailedRecord(sync_records[d])
                     /\ (device_ids # <<>> => \E j \in 1..Len(device_ids) : device_ids[j] = d)}

\* SyncResult(success=True, 0, 0, 0, 0, errors=[]) when nothing is to retry
EmptyResult == [NoResult EXCEPT !.kind = "returned", !.success = TRUE]

\* retry_failed_devices(device_ids): the failed ids go to manual_sync, and
\* nothing is started when there are none (the early return is recorded as
\* the last result only while no run is in progress)
retry_failed_devices ==
    \E device_ids \in (IF sync_in_progress THEN {<<>>} ELSE IdLists) :
        LET failed_device_ids == SetToSeq(FailedDeviceIds(device_ids))
        IN IF failed_device_ids = <<>>
           THEN /\ ~sync_in_progress
                /\ result' = EmptyResult
                /\ UNCHANGED <<sync_in_progress, last_full_sync, last_incremental_sync,
                               sync_logs, sync_records, run, rejected>>
                /\ UNCHANGED rlvars
                /\ UNCHANGED adaptvars
           ELSE StartSync("manual", failed_device_ids, TRUE)

\* `except Exception` and `finally` of _perform_sync: the row is finalized as
\* failed with the message, the flag is cleared, the exception propagates
AbortWithoutLog(msg) ==
    /\ sync_in_progress' = FALSE
    /\ result' = [NoResult EXCEPT !.kind = "raised", !.errors = <<msg>>]
    /\ run' = RunIdle
    /\ rejected' = FALSE
    /\ UNCHANGED <<last_full_sync, last_incremental_sync, sync_records, sync_logs>>
    /\ UNCHANGED rlvars
    /\ UNCHANGED adaptvars

AbortAdvancing(msg) ==
    /\ sync_logs' = [sync_logs EXCEPT ![run.log].status = "failed",
                                      ![run.log].error_message = <<msg>>,
                                      ![run.log].completed = TRUE]
    /\ sync_in_progress' = FALSE
    /\ result' = [NoResult EXCEPT !.kind = "raised", !.errors = <<msg>>]
    /\ run' = RunIdle
    /\ last_full_sync' = IF run.sync_type = "full" THEN run.log ELSE last_full_sync
    /\ last_incremental_sync' = IF run.sync_type = "incremental" THEN run.log
                                ELSE last_incremental_sync
    /\ rejected' = FALSE
    /\ UNCHANGED sync_records
    /\ UNCHANGED rlvars
    /\ UNCHANGED adaptvars

Abort(msg) ==
    /\ sync_logs' = [sync_logs EXCEPT ![run.log].status = "failed",
                                      ![run.log].error_message = <<msg>>,
                                      ![run.log].completed = TRUE]
    /\ sync_in_progress' = FALSE
    /\ result' = [NoResult EXCEPT !.kind = "raised", !.errors = <<msg>>]
    /\ run' = RunIdle
    /\ rejected' = FALSE
    /\ UNCHANGED <<last_full_sync, last_incremental_sync, sync_records>>
    /\ UNCHANGED rlvars
    /\ UNCHANGED adaptvars

\* the check answered `ok` and the run goes on
Proceed(ok, field, pc) ==
    /\ run' = [run EXCEPT ![field] = ok, !.pc = pc]
    /\ UNCHANGED <<sync_in_progress, last_full_sync, last_incremental_sync,
                   sync_logs, sync_records, rejected, result>>
    /\ UNCHANGED rlvars
    /\ UNCHANGED adaptvars

\* if not await mdm_connector.test_connection(): raise MDMConnectorError
ConnectivityIgnored(ok, field, pc, msg) == Proceed(ok, field, pc)
Connectivity(ok, field, pc, msg) == IF ok THEN Proceed(ok, field, pc) ELSE Abort(msg)

TestMDM ==
    /\ run.pc = "test_mdm"
    /\ \E ok \in BOOLEAN : Connectivity(ok, "mdm_ok", "test_glpi", "No se puede conectar a MDM")

\* if not await glpi_connector.test_connection(): raise GLPIConnectorError
TestGLPI ==
    /\ run.pc = "test_glpi"
    /\ \E ok \in BOOLEAN : Connectivity(ok, "glpi_ok", "fetch", "No se puede conectar a GLPI")

\* a device snapshot as fetched: its id and the digest of its tracked fields
Snapshot(d, h) == [device_id |-> d, hash |-> h[d]]

\* MDMDevice.calculate_sync_hash of a fetched snapshot
calculate_sync_hash(dev) == dev.hash

\* _get_mdm_devices: by ids, modified since the watermark, or everything;
\* h is the source's current content, modified the devices the source
\* reports as modified since the given instant
get_mdm_devices(t, ids, h, modified) ==
    IF t = "manual" /\ ids # <<>>
    THEN [j \in 1..Len(ids) |-> Snapshot(ids[j], h)]
    ELSE IF t = "incremental" /\ last_incremental_sync # None
    THEN [j \in 1..Cardinality(modified) |-> Snapshot(SetToSeq(modified)[j], h)]
    ELSE [j \in 1..NumDevices |-> Snapshot(j, h)]

\* the connector call _get_mdm_devices makes: get_device_details per id,
\* get_all_devices(modified_since = ...), or get_all_devices()
QueryMade(t, ids) ==
    IF t = "manual" /\ ids # <<>> THEN "ids"
    ELSE IF t = "incremental" /\ last_incremental_sync # None THEN "modified_since"
    ELSE "all"

\* mdm_devices = await self._get_mdm_devices(...): the list, or an exception
Fetch ==
    /\ run.pc = "fetch"
    /\ \/ Abort("Error de API MDM")
       \/ \E h \in [Devices -> Hashes], modified \in SUBSET Devices :
            LET devs == get_mdm_devices(run.sync_type, run.device_ids, h, modified)
            IN /\ run' = [run EXCEPT !.fetched = TRUE, !.mdm_devices = devs,
                                     !.query = QueryMade(run.sync_type, run.device_ids),
                                     !.device_ids = <<>>,
                                     !.pc = IF devs = <<>> THEN "finalize"
                                            ELSE "device"]
               /\ UNCHANGED <<sync_in_progress, last_full_sync,
                              last_incremental_sync, sync_logs, sync_records,
                              rejected, result>>
               /\ UNCHANGED rlvars
               /\ UNCHANGED adaptvars

\* the batch being processed is mdm_devices[i : i + batch_size]
batch_size == ConfBatchSize
BatchLenOne == Min(1, Len(run.mdm_devices) - run.i)
BatchLen == Min(batch_size, Len(run.mdm_devices) - run.i)
CurrentDevice == run.mdm_devices[run.i + run.k + 1]

\* `await self.rate_limiter.acquire()` for the next device of the batch
DeviceAcquire ==
    /\ run.pc = "device"
    /\ AcquireCall(Engine)
    /\ run' = [run EXCEPT !.pc = "acquire"]
    /\ UNCHANGED <<sync_in_progress, last_full_sync, last_incremental_sync,
                   sync_logs, sync_records, rejected, result>>
    /\ UNCHANGED adaptvars

\* the engine's call inside acquire()
EngineLimiter ==
    /\ run.pc = "acquire"
    /\ \/ LockEnter(Engine)
       \/ AcquireBody(Engine)
       \/ SleepDone(Engine)
       \/ LockExit(Engine)
    /\ UNCHANGED adaptvars
    /\ UNCHANGED engvars

\* Time passes.  Only acquire() reads the clock, so the time that passes
\* between two acquire() calls is taken when the engine reaches the lock,
\* and the time of a sleep while it sleeps.
EngineTick ==
    /\ run.pc = "acquire"
    /\ acq[Engine].pc \in {"lock", "sleep"}
    /\ Tick
    /\ UNCHANGED adaptvars
    /\ UNCHANGED engvars

\* _sync_single_device: "Si existe y no ha cambiado, saltar"
NeverSkip(rec, current_hash) == FALSE
SkipIgnoringStatus(rec, current_hash) == rec # NoRecord /\ rec.last_hash = current_hash
ShouldSkip(rec, current_hash) ==
    /\ rec # NoRecord
    /\ rec.last_hash = current_hash
    /\ rec.sync_status = "success"

\* _update_sync_record; updated_at (default and onupdate = now) is kept as
\* its age in days
UpdateKeepingHash(rec, dev, glpi_computer_id, status, error_message) ==
    IF rec # NoRecord
    THEN [rec EXCEPT !.sync_status = status,
                     !.error_message = error_message,
                     !.updated_age = 0,
                     !.glpi_computer_id = IF glpi_computer_id # None
                                          THEN glpi_computer_id ELSE @]
    ELSE [glpi_computer_id |-> glpi_computer_id,
          last_hash |-> IF status = "success" THEN calculate_sync_hash(dev)
                        ELSE None,
          sync_status |-> status,
          error_message |-> error_message,
          updated_age |-> 0]
UpdateOverwriting(rec, dev, glpi_computer_id, status, error_message) ==
    [glpi_computer_id |-> glpi_computer_id,
     last_hash |-> IF status = "success" THEN calculate_sync_hash(dev) ELSE None,
     sync_status |-> status,
     error_message |-> error_message,
     updated_age |-> 0]
update_sync_record(rec, dev, glpi_computer_id, status, error_message) ==
    IF rec # NoRecord
    THEN [rec EXCEPT !.sync_status = status,
                     !.error_message = error_message,
                     !.updated_age = 0,
                     !.glpi_computer_id = IF glpi_computer_id # None
                                          THEN glpi_computer_id ELSE @,
                     !.last_hash = IF status = "success"
                                   THEN calculate_sync_hash(dev) ELSE @]
    ELSE [glpi_computer_id |-> glpi_computer_id,
          last_hash |-> IF status = "success" THEN calculate_sync_hash(dev)
                        ELSE None,
          sync_status |-> status,
          error_message |-> error_message,
          updated_age |-> 0]

\* what glpi_connector.sync_device_from_mdm does with the call: it returns the
\* computer id, returns None, or raises
Outcomes == {"id", "none", "raise"}
TargetId(d) == 100 + d
ErrorText(o) == "error"

\* `except Exception` of the per-device handler: what it catches
FailureEscapes(o) == FALSE
FailureCaught(o) == o \in {"none", "raise"}

\* action = "updated" if sync_record else "created"
SyncActionAlwaysCreated(rec) == "created"
SyncAction(rec) == IF rec # NoRecord THEN "updated" ELSE "created"

\* one iteration of the loop of _process_device_batch once acquire() has
\* returned, and, after the last device of a batch, the counters of
\* _perform_sync
DeviceSync(o) ==
    /\ run.pc = "acquire"
    /\ acq[Engine].pc = "idle"
    /\ LET dev == CurrentDevice
           d == dev.device_id
           rec == sync_records[d]
           skip == ShouldSkip(rec, calculate_sync_hash(dev))
           ok == skip \/ o = "id"
           action == IF skip THEN "skipped"
                     ELSE IF o # "id" THEN "failed"
                     ELSE SyncAction(rec)
           processed == run.processed + (IF ok THEN 1 ELSE 0)
           created == run.created + (IF action = "created" THEN 1 ELSE 0)
           updated == run.updated + (IF action = "updated" THEN 1 ELSE 0)
           failed == run.failed + (IF ok THEN 0 ELSE 1)
           batch_errors == IF ok THEN run.batch_errors
                           ELSE Append(run.batch_errors, [device_id |-> d, text |-> ErrorText(o)])
           last == run.k + 1 = BatchLen
           more == run.i + batch_size < Len(run.mdm_devices)
           r1 == [run EXCEPT !.calls = IF skip THEN @
                                       ELSE Append(@, [device_id |-> d, ok |-> o = "id"]),
                             !.actions = Append(@, [device_id |-> d, action |-> action]) ]
       IN IF ~ok /\ ~FailureCaught(o) THEN Abort(ErrorText(o)) ELSE
          /\ sync_records' =
                IF skip THEN sync_records
                ELSE IF o = "id"
                THEN [sync_records EXCEPT ![d] =
                        update_sync_record(rec, dev, TargetId(d), "success", None)]
                ELSE [sync_records EXCEPT ![d] =
                        update_sync_record(rec, dev, None, "failed", ErrorText(o))]
          /\ IF ok THEN report_success ELSE report_error
          /\ run' =
                IF ~last
                THEN [r1 EXCEPT !.pc = "device", !.k = @ + 1,
                                !.processed = processed, !.created = created,
                                !.updated = updated, !.failed = failed,
                                !.batch_errors = batch_errors]
                ELSE [r1 EXCEPT !.pc = IF more THEN "device" ELSE "finalize",
                                !.i = IF more THEN @ + batch_size ELSE @,
                                !.k = IF more THEN 0 ELSE @ + 1,
                                !.devices_processed = @ + processed,
                                !.devices_created = @ + created,
                                !.devices_updated = @ + updated,
                                !.devices_failed = @ + failed,
                                !.errors = @ \o batch_errors,
                                !.processed = 0, !.created = 0,
                                !.updated = 0, !.failed = 0,
                                !.batch_errors = <<>>]
          /\ UNCHANGED <<sync_in_progress, last_full_sync, last_incremental_sync,
                         sync_logs, rejected, result>>
          /\ UNCHANGED <<requests, lock, acq, granted>>

SyncDevice == \E o \in Outcomes : DeviceSync(o)

\* "Actualizar timestamps": which run end each watermark holds after a run
\* of type t, numbered n, has completed
WatermarkAnyType(t, n, which, old) == n
Watermark(t, n, which, old) == IF t = which THEN n ELSE old

\* the end of _perform_sync when no exception was raised: the row, the
\* watermarks, the SyncResult, and `finally`
Finalize ==
    /\ run.pc = "finalize"
    /\ sync_logs' = [sync_logs EXCEPT ![run.log] =
            [@ EXCEPT !.status = "success",
                      !.devices_processed = run.devices_processed,
                      !.devices_created = run.devices_created,
                      !.devices_updated = run.devices_updated,
                      !.devices_failed = run.devices_failed,
                      !.error_message = SubSeq(run.errors, 1, Min(Len(run.errors), ErrorCap)),
                      !.completed = TRUE]]
    /\ last_full_sync' = Watermark(run.sync_type, run.log, "full", last_full_sync)
    /\ last_incremental_sync' =
            Watermark(run.sync_type, run.log, "incremental", last_incremental_sync)
    /\ result' = [kind |-> "returned",
                  success |-> run.devices_failed = 0,
                  devices_processed |-> run.devices_processed,
                  devices_created |-> run.devices_created,
                  devices_updated |-> run.devices_updated,
                  devices_failed |-> run.devices_failed,
                  errors |-> run.errors]
    /\ sync_in_progress' = FALSE
    /\ run' = RunIdle
    /\ rejected' = FALSE
    /\ UNCHANGED sync_records
    /\ UNCHANGED rlvars
    /\ UNCHANGED adaptvars

Init ==
    /\ requests = <<>>
    /\ original_max_requests = ConfMaxRequests
    /\ max_requests = original_max_requests
    /\ lock = NoTask
    /\ acq = [c \in Tasks |-> AcqIdle]
    /\ granted = <<>>
    /\ consecutive_errors = 0
    /\ consecutive_successes = 0
    /\ sync_in_progress = FALSE
    /\ last_full_sync = None
    /\ last_incremental_sync = None
    /\ sync_logs = <<>>
    /\ sync_records = [d \in Devices |-> NoRecord]
    /\ run = RunIdle
    /\ rejected = FALSE
    /\ result = NoResult

Next ==
    \/ full_sync
    \/ incremental_sync
    \/ manual_sync
    \/ retry_failed_devices
    \/ TestMDM
    \/ TestGLPI
    \/ Fetch
    \/ DeviceAcquire
    \/ EngineLimiter
    \/ SyncDevice
    \/ Finalize
    \/ EngineTick

Spec == Init /\ [][Next]_vars

\* ----------------------------------------- concurrent callers of one limiter
CallerAcquire(c) == AcquireCall(c) /\ UNCHANGED adaptvars /\ UNCHANGED engvars
CallerLockEnter(c) == LockEnter(c) /\ UNCHANGED adaptvars /\ UNCHANGED engvars
CallerBody(c) == AcquireBody(c) /\ UNCHANGED adaptvars /\ UNCHANGED engvars
CallerSleepDone(c) == SleepDone(c) /\ UNCHANGED adaptvars /\ UNCHANGED engvars
CallerLockExit(c) == LockExit(c) /\ UNCHANGED adaptvars /\ UNCHANGED engvars
CallerTick == Tick /\ UNCHANGED adaptvars /\ UNCHANGED engvars

RLNext ==
    \/ \E c \in Callers : CallerAcquire(c)
    \/ \E c \in Callers : CallerLockEnter(c)
    \/ \E c \in Callers : CallerBody(c)
    \/ \E c \in Callers : CallerSleepDone(c)
    \/ \E c \in Callers : CallerLockExit(c)
    \/ CallerTick

SpecRL == Init /\ [][RLNext]_vars

\* asyncio wakes the waiters of a lock in turn, runs every ready task, and
\* time passes
FairSpecRL ==
    /\ SpecRL
    /\ WF_vars(CallerTick)
    /\ \A c \in Callers :
        /\ SF_vars(CallerLockEnter(c))
        /\ WF_vars(CallerBody(c))
        /\ WF_vars(CallerSleepDone(c))
        /\ WF_vars(CallerLockExit(c))

\* ------------------------------------------- one AdaptiveRateLimiter alone
\* AdaptiveRateLimiter(max_requests = n), n >= 1, the engine's 30 included
AdaptInit ==
    /\ original_max_requests \in 1..EngineMaxRequests
    /\ max_requests = original_max_requests
    /\ requests = <<>>
    /\ lock = NoTask
    /\ acq = [c \in Tasks |-> AcqIdle]
    /\ granted = <<>>
    /\ consecutive_errors = 0
    /\ consecutive_successes = 0
    /\ sync_in_progress = FALSE
    /\ last_full_sync = None
    /\ last_incremental_sync = None
    /\ sync_logs = <<>>
    /\ sync_records = [d \in Devices |-> NoRecord]
    /\ run = RunIdle
    /\ rejected = FALSE
    /\ result = NoResult

AdaptError ==
    /\ consecutive_errors < MaxConsecutiveErrors
    /\ report_error
    /\ UNCHANGED <<requests, lock, acq, granted>>
    /\ UNCHANGED engvars

AdaptSuccess ==
    /\ report_success
    /\ UNCHANGED <<requests, lock, acq, granted>>
    /\ UNCHANGED engvars

AdaptNext ==
    \/ AdaptError
    \/ AdaptSuccess

SpecAdapt == AdaptInit /\ [][AdaptNext]_vars

\* the caller keeps reporting: every device handled reports one or the other
FairSpecAdapt == SpecAdapt /\ WF_vars(AdaptSuccess)

\* ------------------------------------------------------ retention cleanup
\* rows of sync_records as earlier runs leave them, of any age
StoredRecords(d) ==
    {NoRecord} \cup
    {[glpi_computer_id |-> IF st = "success" THEN TargetId(d) ELSE None,
      last_hash |-> IF st = "success" THEN 1 ELSE None,
      sync_status |-> st,
      error_message |-> IF st = "success" THEN None ELSE "error",
      updated_age |-> a] : st \in {"success", "failed"}, a \in 0..MaxAge}

\* rows of sync_logs as earlier runs leave them (a row stays in_progress when
\* its process died), of any age
StoredLogs ==
    {[NewSyncLog(t) EXCEPT !.status = st, !.completed = (st # "in_progress"),
                           !.started_age = a] :
        t \in {"full", "manual"}, st \in {"success", "failed", "in_progress"},
        a \in 0..MaxAge}

\* started_at grows with the id: the older rows come first
StoredLogTables ==
    {q \in UNION {[1..n -> StoredLogs] : n \in 0..MaxRuns} :
        \A j \in 1..(Len(q) - 1) : q[j].started_age >= q[j + 1].started_age}

CleanupInit ==
    /\ sync_records \in {f \in [Devices -> UNION {StoredRecords(d) : d \in Devices}] :
                            \A d \in Devices : f[d] \in StoredRecords(d)}
    /\ sync_logs \in StoredLogTables
    /\ original_max_requests = ConfMaxRequests
    /\ max_requests = original_max_requests
    /\ requests = <<>>
    /\ lock = NoTask
    /\ acq = [c \in Tasks |-> AcqIdle]
    /\ granted = <<>>
    /\ consecutive_errors = 0
    /\ consecutive_successes = 0
    /\ sync_in_progress = FALSE
    /\ last_full_sync = None
    /\ last_incremental_sync = None
    /\ run = RunIdle
    /\ rejected = FALSE
    /\ result = NoResult

\* SyncLog.started_at < cutoff_date, with cutoff_date = now - days
LogOld(row, days) == row.started_age > days

\* SyncRecord.updated_at < cutoff_date and sync_status == SUCCESS
RecordDeletableAnyStatus(rec, days) == rec # NoRecord /\ rec.updated_age > days
RecordDeletable(rec, days) ==
    /\ rec # NoRecord
    /\ rec.updated_age > days
    /\ rec.sync_status = "success"

\* cleanup_old_logs(days): both deletes, the commit, and the returned total
cleanup_old_logs ==
    \E days \in 0..MaxAge :
        LET Kept(row) == ~LogOld(row, days)
            deleted_logs == Len(sync_logs) - Len(SelectSeq(sync_logs, Kept))
            deleted_records ==
                Cardinality({d \in Devices : RecordDeletable(sync_records[d], days)})
        IN /\ sync_logs' = SelectSeq(sync_logs, Kept)
           /\ sync_records' = [d \in Devices |->
                    IF RecordDeletable(sync_records[d], days) THEN NoRecord
                    ELSE sync_records[d]]
           /\ result' = [kind |-> "cleanup", days |-> days,
                         total_deleted |-> deleted_logs + deleted_records]
           /\ UNCHANGED <<sync_in_progress, last_full_sync, last_incremental_sync,
                          run, rejected>>
           /\ UNCHANGED rlvars
           /\ UNCHANGED adaptvars

\* a day goes by: every stored timestamp is one day older (ages are kept up
\* to MaxAge, past every cutoff below it)
DayPasses ==
    /\ sync_logs' = [j \in 1..Len(sync_logs) |->
            [sync_logs[j] EXCEPT !.started_age = Min(@ + 1, MaxAge)]]
    /\ sync_records' = [d \in Devices |->
            IF sync_records[d] = NoRecord THEN NoRecord
            ELSE [sync_records[d] EXCEPT !.updated_age = Min(@ + 1, MaxAge)]]
    /\ result' = NoResult
    /\ UNCHANGED <<sync_in_progress, last_full_sync, last_incremental_sync,
                   run, rejected>>
    /\ UNCHANGED rlvars
    /\ UNCHANGED adaptvars

CleanupNext ==
    \/ cleanup_old_logs
    \/ DayPasses

SpecCleanup == CleanupInit /\ [][CleanupNext]_vars

\* ------------------------------------------- a run over many device ids
\* manual_sync(device_ids) with a list of LongRunIds ids or fewer (the same
\* id may be given repeatedly, _get_mdm_devices fetches it once per entry),
\* LongRuns times
long_manual_sync ==
    /\ Len(sync_logs) < LongRuns
    /\ \E n \in 1..LongRunIds : PerformSync("manual", [j \in 1..n |-> 1])

LongNext ==
    \/ long_manual_sync
    \/ TestMDM
    \/ TestGLPI
    \/ Fetch
    \/ DeviceAcquire
    \/ EngineLimiter
    \/ SyncDevice
    \/ Finalize
    \/ EngineTick

SpecLong == Init /\ [][LongNext]_vars

\* the event loop runs every step of the run that is ready, and time passes
FairSpecLong ==
    /\ SpecLong
    /\ WF_vars(TestMDM)
    /\ WF_vars(TestGLPI)
    /\ WF_vars(Fetch)
    /\ WF_vars(DeviceAcquire)
    /\ WF_vars(EngineLimiter)
    /\ WF_vars(SyncDevice)
    /\ WF_vars(Finalize)
    /\ WF_vars(EngineTick)


\* --------------------------------------- runs started through the HTTP layer
\* Each request gets its SyncService from get_sync_service, which constructs
\* one; the instances share only the database.  In this specification
\* sync_in_progress[r] is the flag of the instance of request r, run[r] the
\* position of that request and the SyncLog row of its run.
Requests == 1..NumRequests
SyncTypes == {"full", "incremental", "manual"}
NoInstance == [pc |-> "none", log |-> 0]

HttpInit ==
    /\ requests = <<>>
    /\ original_max_requests = EngineMaxRequests
    /\ max_requests = original_max_requests
    /\ lock = NoTask
    /\ acq = [c \in Tasks |-> AcqIdle]
    /\ granted = <<>>
    /\ consecutive_errors = 0
    /\ consecutive_successes = 0
    /\ sync_in_progress = [r \in Requests |-> FALSE]
    /\ last_full_sync = None
    /\ last_incremental_sync = None
    /\ sync_logs = <<>>
    /\ sync_records = [d \in Devices |-> NoRecord]
    /\ run = [r \in Requests |-> NoInstance]
    /\ rejected = FALSE
    /\ result = NoResult

\* Depends(get_sync_service): return SyncService(settings), whose __init__
\* sets self._sync_in_progress = False
get_sync_service(r) ==
    /\ run[r].pc = "none"
    /\ run' = [run EXCEPT ![r].pc = "constructed"]
    /\ sync_in_progress' = [sync_in_progress EXCEPT ![r] = FALSE]
    /\ UNCHANGED <<last_full_sync, last_incremental_sync, sync_logs,
                   sync_records, rejected, result>>
    /\ UNCHANGED rlvars
    /\ UNCHANGED adaptvars

\* the endpoint: 409 when the instance's flag is set and force is not given,
\* else `await sync_service.<type>_sync()`, which is _perform_sync up to its
\* first await: the check of the instance's flag, the flag, the SyncLog row
HttpSync(r, t, force) ==
    /\ run[r].pc = "constructed"
    /\ IF (sync_in_progress[r] /\ ~force) \/ sync_in_progress[r]
       THEN /\ rejected' = TRUE
            /\ run' = [run EXCEPT ![r].pc = "done"]
            /\ UNCHANGED <<sync_in_progress, sync_logs>>
       ELSE /\ rejected' = FALSE
            /\ sync_in_progress' = [sync_in_progress EXCEPT ![r] = TRUE]
            /\ sync_logs' = Append(sync_logs, NewSyncLog(t))
            /\ run' = [run EXCEPT ![r] = [pc |-> "running",
                                          log |-> Len(sync_logs) + 1]]
    /\ UNCHANGED <<last_full_sync, last_incremental_sync, sync_records, result>>
    /\ UNCHANGED rlvars
    /\ UNCHANGED adaptvars

\* the run of request r ends: the row is completed as success or as failed
\* and `finally` clears the flag of the instance
HttpSyncEnds(r, returned) ==
    /\ run[r].pc = "running"
    /\ sync_logs' = [sync_logs EXCEPT ![run[r].log] =
            [@ EXCEPT !.status = IF returned THEN "success" ELSE "failed",
                      !.completed = TRUE]]
    /\ sync_in_progress' = [sync_in_progress EXCEPT ![r] = FALSE]
    /\ run' = [run EXCEPT ![r].pc = "done"]
    /\ rejected' = FALSE
    /\ UNCHANGED <<last_full_sync, last_incremental_sync, sync_records, result>>
    /\ UNCHANGED rlvars
    /\ UNCHANGED adaptvars

HttpNext ==
    \/ \E r \in Requests : get_sync_service(r)
    \/ \E r \in Requests, t \in SyncTypes, force \in BOOLEAN : HttpSync(r, t, force)
    \/ \E r \in Requests, returned \in BOOLEAN : HttpSyncEnds(r, returned)

SpecHttp == HttpInit /\ [][HttpNext]_vars

\* ------------------------------------------ the paginated listing of devices
\* The source holds a list of device entries; _parse_device raises on some
\* of them.  In this specification run is the position of one call of
\* get_all_devices: [pc, source, offset, all_devices].
Sources ==
    UNION {[1..n -> [device_id : Devices, parseable : BOOLEAN]] : n \in 0..MaxSource}

PagesInit ==
    /\ requests = <<>>
    /\ original_max_requests = EngineMaxRequests
    /\ max_requests = original_max_requests
    /\ lock = NoTask
    /\ acq = [c \in Tasks |-> AcqIdle]
    /\ granted = <<>>
    /\ consecutive_errors = 0
    /\ consecutive_successes = 0
    /\ sync_in_progress = FALSE
    /\ last_full_sync = None
    /\ last_incremental_sync = None
    /\ sync_logs = <<>>
    /\ sync_records = [d \in Devices |-> NoRecord]
    /\ \E src \in Sources :
          run = [pc |-> "page", source |-> src, offset |-> 0, all_devices |-> <<>>]
    /\ rejected = FALSE
    /\ result = NoResult

\* the entries of q whose parsing succeeds, in order
RECURSIVE Parsed(_)
Parsed(q) ==
    IF q = <<>> THEN <<>>
    ELSE (IF Head(q).parseable THEN <<Head(q).device_id>> ELSE <<>>) \o Parsed(Tail(q))

\* get_devices(limit, offset): the source's page, without the entries that
\* _parse_device rejects
get_devices(source, limit, offset) ==
    Parsed(SubSeq(source, offset + 1, Min(Len(source), offset + limit)))

\* `break` of get_all_devices after a page: "Si obtuvimos menos dispositivos
\* que el límite, hemos terminado"
LastPage(devices, limit) == Len(devices) < limit

\* one iteration of the loop of get_all_devices
PageStep ==
    /\ run.pc = "page"
    /\ LET devices == get_devices(run.source, PageSize, run.offset)
           all == run.all_devices \o devices
       IN IF devices = <<>> \/ LastPage(devices, PageSize)
          THEN /\ run' = [run EXCEPT !.pc = "done", !.all_devices = all]
               /\ result' = [kind |-> "listed", devices |-> all]
          ELSE /\ run' = [run EXCEPT !.all_devices = all,
                                     !.offset = @ + PageSize]
               /\ UNCHANGED result
    /\ UNCHANGED <<sync_in_progress, last_full_sync, last_incremental_sync,
                   sync_logs, sync_records, rejected>>
    /\ UNCHANGED rlvars
    /\ UNCHANGED adaptvars

\* the request of a page fails: get_devices logs and raises
PageFails ==
    /\ run.pc = "page"
    /\ run' = [run EXCEPT !.pc = "done"]
    /\ result' = [kind |-> "raised", devices |-> <<>>]
    /\ UNCHANGED <<sync_in_progress, last_full_sync, last_incremental_sync,
                   sync_logs, sync_records, rejected>>
    /\ UNCHANGED rlvars
    /\ UNCHANGED adaptvars

PagesNext ==
    \/ PageStep
    \/ PageFails

SpecPages == PagesInit /\ [][PagesNext]_vars

\* ------------------------------------------------- the device fingerprint
\* A string is the sequence of its characters.  A field value is
\* [t |-> "str", v |-> characters], [t |-> "int", v |-> number],
\* [t |-> "bool", v |-> flag], or Python's None.
PyNone(v) == [t |-> "none", v |-> v]
PyStr(chars) == [t |-> "str", v |-> chars]
PyInt(n) == [t |-> "int", v |-> n]
PyBool(b) == [t |-> "bool", v |-> b]

\* str(int) for a non-negative int
DigitChar(d) == <<"0", "1", "2", "3", "4", "5", "6", "7", "8", "9">>[d + 1]
RECURSIVE Decimal(_)
Decimal(n) == IF n < 10 THEN <<DigitChar(n)>> ELSE Decimal(n \div 10) \o <<DigitChar(n % 10)>>

\* Python's str(x)
Str(x) ==
    CASE x.t = "str" -> x.v
      [] x.t = "int" -> Decimal(x.v)
      [] x.t = "bool" -> IF x.v THEN <<"T", "r", "u", "e">> ELSE <<"F", "a", "l", "s", "e">>
      [] x.t = "none" -> <<"N", "o", "n", "e">>

\* sep.join(parts)
RECURSIVE Join(_, _)
Join(sep, parts) ==
    IF parts = <<>> THEN <<>>
    ELSE IF Len(parts) = 1 THEN parts[1]
    ELSE parts[1] \o sep \o Join(sep, Tail(parts))

\* hashlib.md5(...).hexdigest(): the digest is determined by the string, and
\* no two of the strings that occur here have the same digest
Md5(chars) == [md5 |-> chars]

\* relevant_fields of calculate_sync_hash
RelevantFieldsWithId(dev) ==
    <<dev.device_id, dev.device_name, dev.model, dev.manufacturer, dev.os_version,
      dev.user_email, dev.user_name, dev.status,
      PyStr(Str(dev.is_supervised)), PyStr(Str(dev.is_lost_mode)),
      PyStr(Str(dev.battery_level)), PyStr(Str(dev.storage_total)),
      PyStr(Str(dev.storage_available)), dev.phone_number>>
RelevantFields(dev) ==
    <<dev.device_name, dev.model, dev.manufacturer, dev.os_version,
      dev.user_email, dev.user_name, dev.status,
      PyStr(Str(dev.is_supervised)), PyStr(Str(dev.is_lost_mode)),
      PyStr(Str(dev.battery_level)), PyStr(Str(dev.storage_total)),
      PyStr(Str(dev.storage_available)), dev.phone_number>>

\* MDMDevice.calculate_sync_hash on the fields of a device:
\* md5("|".join(str(field) for field in relevant_fields))
SyncHash(dev) ==
    LET fields == RelevantFields(dev)
    IN Md5(Join(<<"|">>, [j \in 1..Len(fields) |-> Str(fields[j])]))

\* the strings over a and | of the lengths lo..hi
Texts(lo, hi) == UNION {[1..n -> {"a", "|"}] : n \in lo..hi}

\* the devices considered: device_name is required to be non-empty, status
\* is normalised to a DeviceStatus value, battery_level is None or 0..100
MDMDevices ==
    [device_id : {PyStr(<<"1">>), PyStr(<<"2">>)},
     device_name : {PyStr(x) : x \in Texts(1, MaxNameLen)},
     model : {PyStr(x) : x \in Texts(0, MaxModelLen)},
     manufacturer : {PyStr(<<"a">>)},
     serial_number : {PyStr(<<"a">>)},
     os_type : {PyStr(<<"i", "o", "s">>), PyStr(<<"a", "n", "d", "r", "o", "i", "d">>)},
     os_version : {PyStr(<<"1">>)},
     imei : {PyNone(<<>>)},
     user_email : {PyNone(<<>>)},
     user_name : {PyNone(<<>>), PyStr(<<"N", "o", "n", "e">>), PyStr(<<"a">>)},
     last_seen : {PyNone(0)},
     status : {PyStr(<<"a", "c", "t", "i", "v", "e">>)},
     is_supervised : {PyBool(FALSE)},
     is_lost_mode : {PyBool(FALSE)},
     battery_level : {PyNone(0), PyInt(50)},
     storage_total : {PyNone(0)},
     storage_available : {PyNone(0)},
     phone_number : {PyStr(<<>>)}]

HashInit ==
    /\ requests = <<>>
    /\ original_max_requests = EngineMaxRequests
    /\ max_requests = original_max_requests
    /\ lock = NoTask
    /\ acq = [c \in Tasks |-> AcqIdle]
    /\ granted = <<>>
    /\ consecutive_errors = 0
    /\ consecutive_successes = 0
    /\ sync_in_progress = FALSE
    /\ last_full_sync = None
    /\ last_incremental_sync = None
    /\ sync_logs = <<>>
    /\ sync_records = [d \in Devices |-> NoRecord]
    /\ \E a \in MDMDevices, b \in MDMDevices :
          run = [pc |-> "hash", a |-> a, b |-> b]
    /\ rejected = FALSE
    /\ result = NoResult

\* calculate_sync_hash() is called on each of the two devices
Fingerprint ==
    /\ run.pc = "hash"
    /\ run' = [run EXCEPT !.pc = "done"]
    /\ result' = [kind |-> "hashes", a |-> SyncHash(run.a), b |-> SyncHash(run.b)]
    /\ UNCHANGED <<sync_in_progress, last_full_sync, last_incremental_sync,
                   sync_logs, sync_records, rejected>>
    /\ UNCHANGED rlvars
    /\ UNCHANGED adaptvars

HashNext == Fingerprint

SpecHash == HashInit /\ [][HashNext]_vars

\* ------------------------------------------- crash, restart, status query
\* The process dies in the middle of a run and is started again: what the
\* engine keeps in memory (flag, watermarks, limiter, the run) is that of a
\* new SyncService, the database keeps its rows.  The runs are full runs.
Crash ==
    /\ run.pc # "idle"
    /\ requests' = <<>>
    /\ max_requests' = original_max_requests
    /\ lock' = NoTask
    /\ acq' = [c \in Tasks |-> AcqIdle]
    /\ granted' = <<>>
    /\ consecutive_errors' = 0
    /\ consecutive_successes' = 0
    /\ sync_in_progress' = FALSE
    /\ last_full_sync' = None
    /\ last_incremental_sync' = None
    /\ run' = RunIdle
    /\ rejected' = FALSE
    /\ result' = NoResult
    /\ UNCHANGED <<original_max_requests, sync_logs, sync_records>>

\* get_sync_status, called between runs: the flag of the instance, the
\* newest SyncLog row as stored, and the counts of the records
get_sync_status ==
    /\ run.pc = "idle"
    /\ result' =
         [kind |-> "status",
          sync_in_progress |-> sync_in_progress,
          last_sync_log |->
              IF sync_logs = <<>>
              THEN [type |-> None, status |-> None, completed |-> FALSE,
                    devices_processed |-> 0, devices_failed |-> 0]
              ELSE LET last_sync == sync_logs[Len(sync_logs)]
                   IN [type |-> last_sync.sync_type,
                       status |-> last_sync.status,
                       completed |-> last_sync.completed,
                       devices_processed |-> last_sync.devices_processed,
                       devices_failed |-> last_sync.devices_failed],
          total_records |-> Cardinality({d \in Devices : sync_records[d] # NoRecord}),
          successful_records |->
              Cardinality({d \in Devices : sync_records[d].sync_status = "success"}),
          failed_records |->
              Cardinality({d \in Devices : sync_records[d].sync_status = "failed"})]
    /\ rejected' = FALSE
    /\ UNCHANGED <<sync_in_progress, last_full_sync, last_incremental_sync,
                   sync_logs, sync_records, run>>
    /\ UNCHANGED rlvars
    /\ UNCHANGED adaptvars

CrashNext ==
    \/ full_sync
    \/ TestMDM
    \/ TestGLPI
    \/ Fetch
    \/ DeviceAcquire
    \/ EngineLimiter
    \/ SyncDevice
    \/ Finalize
    \/ EngineTick
    \/ Crash
    \/ get_sync_status

SpecCrash == Init /\ [][CrashNext]_vars

\* ------------------------------------------------ the upsert in the target
\* The target holds computers, numbered in the order of their creation; a
\* computer has the serial and the comment it was last written with.  The
\* comment built by GLPIDevice.from_mdm_device has the line
\* "ID MDM: <device_id>"; here "#" stands for "ID MDM: " and "/" for the end
\* of the line.  In this specification run is [pc, serial, computers, known]:
\* the serial number of each source device, the computers, and per device
\* the glpi_computer_id of its SyncRecord.
DeviceIds == {<<"1">>, <<"1", "2">>, <<"2">>}
Serials == {<<>>, <<"s">>}
Comment(device_id) == <<"#">> \o device_id \o <<"/">>

\* searchtype "contains"
Contains(hay, needle) ==
    \E j \in 1..(Len(hay) - Len(needle) + 1) :
        SubSeq(hay, j, j + Len(needle) - 1) = needle

\* computers[0] of a search result: the first of the computers that match
FirstMatch(hits) ==
    IF hits # {}
    THEN CHOOSE c \in hits : \A b \in hits : c <= b
    ELSE None

\* get_computer_by_mdm_id: the comment contains "ID MDM: <mdm_device_id>"
get_computer_by_mdm_id(computers, mdm_device_id) ==
    FirstMatch({c \in 1..Len(computers) :
                    Contains(computers[c].comment, <<"#">> \o mdm_device_id)})

\* get_computer_by_serial: the serial equals the given one
get_computer_by_serial(computers, serial) ==
    FirstMatch({c \in 1..Len(computers) : computers[c].serial = serial})

\* the lookup of sync_device_from_mdm: by MDM id, then "Buscar por serial
\* como fallback"
ExistingComputer(computers, device_id, serial) ==
    LET by_id == get_computer_by_mdm_id(computers, device_id)
    IN IF by_id # None THEN by_id
       ELSE IF serial # <<>> THEN get_computer_by_serial(computers, serial)
       ELSE None

TargetInit ==
    /\ requests = <<>>
    /\ original_max_requests = EngineMaxRequests
    /\ max_requests = original_max_requests
    /\ lock = NoTask
    /\ acq = [c \in Tasks |-> AcqIdle]
    /\ granted = <<>>
    /\ consecutive_errors = 0
    /\ consecutive_successes = 0
    /\ sync_in_progress = FALSE
    /\ last_full_sync = None
    /\ last_incremental_sync = None
    /\ sync_logs = <<>>
    /\ sync_records = [d \in Devices |-> NoRecord]
    /\ \E serial \in [DeviceIds -> Serials] :
          run = [pc |-> "target", serial |-> serial, computers |-> <<>>,
                 known |-> [x \in DeviceIds |-> None]]
    /\ rejected = FALSE
    /\ result = NoResult

\* sync_device_from_mdm(mdm_device) for a device that is not skipped, and
\* the SyncRecord's glpi_computer_id set from what it returns
TargetSync(x) ==
    /\ run.pc = "target"
    /\ LET data == [serial |-> run.serial[x], comment |-> Comment(x)]
           existing == ExistingComputer(run.computers, x, run.serial[x])
       IN IF existing # None
          THEN /\ run' = [run EXCEPT !.computers[existing] = data,
                                     !.known[x] = existing]
               /\ result' = [kind |-> "synced", device_id |-> x,
                             computer_id |-> existing, created |-> FALSE]
          ELSE /\ Len(run.computers) < MaxComputers
               /\ run' = [run EXCEPT !.computers = Append(@, data),
                                     !.known[x] = Len(run.computers) + 1]
               /\ result' = [kind |-> "synced", device_id |-> x,
                             computer_id |-> Len(run.computers) + 1,
                             created |-> TRUE]
    /\ UNCHANGED <<sync_in_progress, last_full_sync, last_incremental_sync,
                   sync_logs, sync_records, rejected>>
    /\ UNCHANGED rlvars
    /\ UNCHANGED adaptvars

\* a request to the target fails: sync_device_from_mdm logs and raises
TargetRaises(x) ==
    /\ run.pc = "target"
    /\ result' = [kind |-> "raised", device_id |-> x,
                  computer_id |-> None, created |-> FALSE]
    /\ UNCHANGED <<sync_in_progress, last_full_sync, last_incremental_sync,
                   sync_logs, sync_records, rejected, run>>
    /\ UNCHANGED rlvars
    /\ UNCHANGED adaptvars

TargetNext ==
    \/ \E x \in DeviceIds : TargetSync(x)
    \/ \E x \in DeviceIds : TargetRaises(x)

SpecTarget == TargetInit /\ [][TargetNext]_vars

\* ------------------------------------------- the rows of table sync_records
\* The table has no unique key on mdm_device_id.  In this specification
\* sync_records is the sequence of its rows, [mdm_device_id, rec], in the
\* order of their ids.
RowsInit ==
    /\ requests = <<>>
    /\ original_max_requests = EngineMaxRequests
    /\ max_requests = original_max_requests
    /\ lock = NoTask
    /\ acq = [c \in Tasks |-> AcqIdle]
    /\ granted = <<>>
    /\ consecutive_errors = 0
    /\ consecutive_successes = 0
    /\ sync_in_progress = FALSE
    /\ last_full_sync = None
    /\ last_incremental_sync = None
    /\ sync_logs = <<>>
    /\ sync_records = <<>>
    /\ run = RunIdle
    /\ rejected = FALSE
    /\ result = NoResult

\* query(SyncRecord).filter_by(mdm_device_id=...).first(): the index of the
\* row, 0 when there is none
FindRowNever(rows, d) == 0
FindRow(rows, d) ==
    IF \E j \in 1..Len(rows) : rows[j].mdm_device_id = d
    THEN CHOOSE j \in 1..Len(rows) :
            /\ rows[j].mdm_device_id = d
            /\ \A b \in 1..(j - 1) : rows[b].mdm_device_id # d
    ELSE 0

\* _update_sync_record as _sync_single_device and _process_device_batch call
\* it, for a device of any run: the query, the update of the row found or
\* the add of a new one, and the commit (no await in between)
RowUpsert(d, h, ok) ==
    LET dev == [device_id |-> d, hash |-> h]
        j == FindRow(sync_records, d)
        rec == IF j = 0 THEN NoRecord ELSE sync_records[j].rec
        new == IF ok THEN update_sync_record(rec, dev, TargetId(d), "success", None)
               ELSE update_sync_record(rec, dev, None, "failed", ErrorText("raise"))
    IN /\ j = 0 => Len(sync_records) < MaxRows
       /\ sync_records' =
            IF j = 0 THEN Append(sync_records, [mdm_device_id |-> d, rec |-> new])
            ELSE [sync_records EXCEPT ![j].rec = new]
       /\ result' = NoResult
       /\ UNCHANGED <<sync_in_progress, last_full_sync, last_incremental_sync,
                      sync_logs, run, rejected>>
       /\ UNCHANGED rlvars
       /\ UNCHANGED adaptvars

\* cleanup_old_logs(days) on the rows of sync_records
RowCleanup(days) ==
    LET Kept(row) == ~RecordDeletable(row.rec, days)
    IN /\ sync_records' = SelectSeq(sync_records, Kept)
       /\ result' = [kind |-> "cleanup", days |-> days,
                     total_deleted |-> Len(sync_records) - Len(SelectSeq(sync_records, Kept))]
       /\ UNCHANGED <<sync_in_progress, last_full_sync, last_incremental_sync,
                      sync_logs, run, rejected>>
       /\ UNCHANGED rlvars
       /\ UNCHANGED adaptvars

\* a day goes by
RowDayPasses ==
    /\ sync_records' = [j \in 1..Len(sync_records) |->
            [sync_records[j] EXCEPT !.rec.updated_age = Min(@ + 1, MaxAge)]]
    /\ result' = NoResult
    /\ UNCHANGED <<sync_in_progress, last_full_sync, last_incremental_sync,
                   sync_logs, run, rejected>>
    /\ UNCHANGED rlvars
    /\ UNCHANGED adaptvars

RowsNext ==
    \/ \E d \in Devices, h \in Hashes, ok \in BOOLEAN : RowUpsert(d, h, ok)
    \/ \E days \in 0..MaxAge : RowCleanup(days)
    \/ RowDayPasses

SpecRows == RowsInit /\ [][RowsNext]_vars

\* ------------------------------------------- a run over an existing store
\* The engine is started on a database that earlier runs have written: per
\* device no record, a record of a success, of a first attempt that failed,
\* or of a failure after a success (which keeps the id and the fingerprint
\* of the success).  The SyncLog rows of the earlier runs but the newest
\* have been cleaned up.
PriorRecords(d) ==
    {NoRecord} \cup
    {[glpi_computer_id |-> TargetId(d), last_hash |-> h, sync_status |-> st,
      error_message |-> IF st = "success" THEN None ELSE ErrorText("raise"),
      updated_age |-> 0] : h \in Hashes, st \in {"success", "failed"}} \cup
    {[glpi_computer_id |-> None, last_hash |-> None, sync_status |-> "failed",
      error_message |-> ErrorText("raise"), updated_age |-> 0]}

PriorInit ==
    /\ requests = <<>>
    /\ original_max_requests = ConfMaxRequests
    /\ max_requests = original_max_requests
    /\ lock = NoTask
    /\ acq = [c \in Tasks |-> AcqIdle]
    /\ granted = <<>>
    /\ consecutive_errors = 0
    /\ consecutive_successes = 0
    /\ sync_in_progress = FALSE
    /\ last_full_sync = None
    /\ last_incremental_sync = None
    /\ sync_logs = [j \in 1..(MaxRuns - 1) |->
            [NewSyncLog("full") EXCEPT !.status = "success", !.completed = TRUE]]
    /\ sync_records \in {f \in [Devices -> UNION {PriorRecords(d) : d \in Devices}] :
                            \A d \in Devices : f[d] \in PriorRecords(d)}
    /\ run = RunIdle
    /\ rejected = FALSE
    /\ result = NoResult

SpecPrior == PriorInit /\ [][Next]_vars

\* ------------------------------------- the database fails as a run starts
\* _perform_sync sets the flag, then opens the session, adds the SyncLog row
\* and commits, and only then enters its try block.  Here the session or the
\* commit raises: the call ends with that exception and no row is stored.
\* The runs are full runs.
StartFails ==
    /\ SyncAllowed
    /\ run.pc = "idle"
    /\ sync_in_progress' = TRUE
    /\ result' = [NoResult EXCEPT !.kind = "raised", !.errors = <<"Error de base de datos">>]
    /\ rejected' = FALSE
    /\ UNCHANGED <<last_full_sync, last_incremental_sync, sync_logs,
                   sync_records, run>>
    /\ UNCHANGED rlvars
    /\ UNCHANGED adaptvars

DbFailNext ==
    \/ full_sync
    \/ StartFails
    \/ TestMDM
    \/ TestGLPI
    \/ Fetch
    \/ DeviceAcquire
    \/ EngineLimiter
    \/ SyncDevice
    \/ Finalize
    \/ EngineTick

SpecDbFail == Init /\ [][DbFailNext]_vars

\* ------------------------------------- incremental runs on a time line
\* Time is counted in minutes from 1 (0 is None).  In this specification
\* last_incremental_sync is the instant the watermark holds and run is
\* [pc, now, modified_at, fetch_time, prev_fetch, selected]: the clock, the
\* instant the source last modified the device (one device is followed),
\* the instant the run in progress fetched, the instant the last completed
\* run had fetched, and whether the fetch of the run in progress returned
\* the device.
WindowInit ==
    /\ requests = <<>>
    /\ original_max_requests = EngineMaxRequests
    /\ max_requests = original_max_requests
    /\ lock = NoTask
    /\ acq = [c \in Tasks |-> AcqIdle]
    /\ granted = <<>>
    /\ consecutive_errors = 0
    /\ consecutive_successes = 0
    /\ sync_in_progress = FALSE
    /\ last_full_sync = None
    /\ last_incremental_sync = None
    /\ sync_logs = <<>>
    /\ sync_records = [d \in Devices |-> NoRecord]
    /\ run = [pc |-> "idle", now |-> 1, modified_at |-> None,
              fetch_time |-> None, prev_fetch |-> None, selected |-> FALSE]
    /\ rejected = FALSE
    /\ result = NoResult

\* modified_since = self._last_incremental_sync - timedelta(minutes=5)
ModifiedSince(watermark) == watermark - BufferMinutes

\* whether _get_mdm_devices of an incremental run returns the device: every
\* device without a watermark, else those modified at or after modified_since
Selected(watermark, modified_at) ==
    IF watermark = None THEN TRUE
    ELSE modified_at # None /\ modified_at >= ModifiedSince(watermark)

\* incremental_sync() up to the return of _get_mdm_devices
WindowFetch ==
    /\ run.pc = "idle"
    /\ run' = [run EXCEPT !.pc = "running", !.fetch_time = run.now,
                          !.selected = Selected(last_incremental_sync, run.modified_at)]
    /\ sync_in_progress' = TRUE
    /\ UNCHANGED <<last_full_sync, last_incremental_sync, sync_logs,
                   sync_records, rejected, result>>
    /\ UNCHANGED rlvars
    /\ UNCHANGED adaptvars

\* the run completes: self._last_incremental_sync = end_time
WindowEnd ==
    /\ run.pc = "running"
    /\ last_incremental_sync' = run.now
    /\ run' = [run EXCEPT !.pc = "idle", !.prev_fetch = run.fetch_time,
                          !.fetch_time = None]
    /\ sync_in_progress' = FALSE
    /\ UNCHANGED <<last_full_sync, sync_logs, sync_records, rejected, result>>
    /\ UNCHANGED rlvars
    /\ UNCHANGED adaptvars

\* the source modifies the device
SourceModifies ==
    /\ run' = [run EXCEPT !.modified_at = run.now]
    /\ UNCHANGED <<sync_in_progress, last_full_sync, last_incremental_sync,
                   sync_logs, sync_records, rejected, result>>
    /\ UNCHANGED rlvars
    /\ UNCHANGED adaptvars

\* a minute passes
MinutePasses ==
    /\ run.now < MaxClock
    /\ run' = [run EXCEPT !.now = @ + 1]
    /\ UNCHANGED <<sync_in_progress, last_full_sync, last_incremental_sync,
                   sync_logs, sync_records, rejected, result>>
    /\ UNCHANGED rlvars
    /\ UNCHANGED adaptvars

WindowNext ==
    \/ WindowFetch
    \/ WindowEnd
    \/ SourceModifies
    \/ MinutePasses

SpecWindow == WindowInit /\ [][WindowNext]_vars

\* ------------------------------ acquire() on a limiter whose limit changes
\* One task uses an AdaptiveRateLimiter(max_requests = n), 1 <= n <= MaxLimit,
\* as the engine does: acquire(), then report_success() or report_error().
LimitInit ==
    /\ original_max_requests \in 1..MaxLimit
    /\ max_requests = original_max_requests
    /\ requests = <<>>
    /\ lock = NoTask
    /\ acq = [c \in Tasks |-> AcqIdle]
    /\ granted = <<>>
    /\ consecutive_errors = 0
    /\ consecutive_successes = 0
    /\ sync_in_progress = FALSE
    /\ last_full_sync = None
    /\ last_incremental_sync = None
    /\ sync_logs = <<>>
    /\ sync_records = [d \in Devices |-> NoRecord]
    /\ run = RunIdle
    /\ rejected = FALSE
    /\ result = NoResult

LimitAcquire ==
    /\ \/ AcquireCall(Engine)
       \/ LockEnter(Engine)
       \/ AcquireBody(Engine)
       \/ SleepDone(Engine)
       \/ LockExit(Engine)
    /\ UNCHANGED adaptvars
    /\ UNCHANGED engvars

LimitTick ==
    /\ Tick
    /\ UNCHANGED adaptvars
    /\ UNCHANGED engvars

LimitError ==
    /\ acq[Engine].pc = "idle"
    /\ consecutive_errors < MaxConsecutiveErrors
    /\ report_error
    /\ UNCHANGED <<requests, lock, acq, granted>>
    /\ UNCHANGED engvars

LimitSuccess ==
    /\ acq[Engine].pc = "idle"
    /\ report_success
    /\ UNCHANGED <<requests, lock, acq, granted>>
    /\ UNCHANGED engvars

LimitNext ==
    \/ LimitAcquire
    \/ LimitTick
    \/ LimitError
    \/ LimitSuccess

SpecLimit == LimitInit /\ [][LimitNext]_vars

\* --------------------------------------------------------------- properties
Last(q) == q[Len(q)]

\* the counters of the run so far: those of the finished batches plus those
\* of the batch being processed
SeenProcessed(r) == r.devices_processed + r.processed
SeenCreated(r) == r.devices_created + r.created
SeenUpdated(r) == r.devices_updated + r.updated
SeenFailed(r) == r.devices_failed + r.failed
SeenErrors(r) == r.errors \o r.batch_errors

\* a step that handles one fetched device
DeviceStep == run.pc = "acquire" /\ Len(run'.actions) = Len(run.actions) + 1

\* the device the next device step handles has a success record
\* with its current fingerprint / with another fingerprint
Unchanged(dev) ==
    /\ sync_records[dev.device_id] # NoRecord
    /\ sync_records[dev.device_id].sync_status = "success"
    /\ sync_records[dev.device_id].last_hash = dev.hash
Changed(dev) ==
    /\ sync_records[dev.device_id] # NoRecord
    /\ sync_records[dev.device_id].sync_status = "success"
    /\ sync_records[dev.device_id].last_hash # dev.hash

\* C1: a full_sync, incremental_sync or manual_sync call made while a run is
\* in progress creates no SyncLog row, is rejected, and changes neither the
\* rows, the records, the watermarks, the flag nor the run in progress.
RejectedCallMutatesNothing ==
    [][/\ sync_in_progress => Len(sync_logs') = Len(sync_logs)
       /\ (rejected' /\ ~rejected) =>
            /\ sync_in_progress /\ sync_in_progress'
            /\ UNCHANGED <<sync_logs, sync_records, last_full_sync,
                           last_incremental_sync, run>>]_vars

RejectedCallWitness ==
    /\ rejected
    /\ sync_in_progress
    /\ run.sync_type = "full"
    /\ Len(sync_logs) = 1
    /\ sync_logs[1].status = "in_progress"

ChangeTriggersSync ==
    [][(DeviceStep /\ Changed(CurrentDevice)) =>
            /\ Len(run'.calls) = Len(run.calls) + 1
            /\ Last(run'.calls).device_id = CurrentDevice.device_id
            /\ Last(run'.calls).ok =>
                /\ sync_records'[CurrentDevice.device_id].sync_status = "success"
                /\ sync_records'[CurrentDevice.device_id].last_hash = CurrentDevice.hash
                /\ sync_records'[CurrentDevice.device_id].error_message = None]_vars

ChangeTriggersSyncWitness ==
    /\ run.pc \in {"device", "acquire", "finalize"}
    /\ \E j \in 1..Len(run.actions) :
        LET d == run.actions[j].device_id IN
        /\ run.actions[j].action = "updated"
        /\ run.records0[d] # NoRecord
        /\ run.records0[d].sync_status = "success"
        /\ run.records0[d].last_hash # sync_records[d].last_hash
        /\ sync_records[d].sync_status = "success"
        /\ sync_records[d].last_hash = run.mdm_devices[j].hash


\* a step in which the run in progress ends by raising / by returning
RunAborts == run.pc # "idle" /\ run'.pc = "idle" /\ result'.kind = "raised"
RunReturns == run.pc # "idle" /\ run'.pc = "idle" /\ result'.kind = "returned"

\* C6: a full or incremental run that aborts (a connectivity check or the
\* fetch failed) leaves both watermarks as they were.
WatermarkKeptOnAbort ==
    [][RunAborts => /\ last_full_sync' = last_full_sync
                    /\ last_incremental_sync' = last_incremental_sync]_vars

WatermarkKeptOnAbortWitness ==
    /\ result.kind = "raised"
    /\ Len(sync_logs) = 2
    /\ sync_logs[2].sync_type = "incremental"
    /\ sync_logs[2].status = "failed"
    /\ last_incremental_sync = 1

\* C7: a watermark changes only when a full or incremental run completes
\* with no failed device (success = (failed == 0)).
WatermarkOnlyOnSuccess ==
    [][(last_full_sync' # last_full_sync
        \/ last_incremental_sync' # last_incremental_sync) =>
            /\ RunReturns
            /\ run.sync_type \in {"full", "incremental"}
            /\ result'.success
            /\ result'.devices_failed = 0]_vars

\* what a device is counted as when its target call succeeds, from its record
\* before the attempt: the engine's rule (C8 amended) and the rule C8 states
CountedAs(rec, h) ==
    IF rec = NoRecord THEN "created"
    ELSE IF rec.sync_status = "success" /\ rec.last_hash = h THEN "skipped"
    ELSE "updated"

StatedAs(rec, h) ==
    IF rec = NoRecord \/ rec.glpi_computer_id = None THEN "created"
    ELSE IF rec.sync_status = "success" /\ rec.last_hash = h THEN "skipped"
    ELSE IF rec.last_hash # h THEN "updated"
    ELSE "uncounted"

SyncedRecord(h) ==
    [glpi_computer_id |-> 1, last_hash |-> h, sync_status |-> "success",
     error_message |-> None, updated_age |-> 0]

\* the number of devices of devs counted as `what` under rule (1: CountedAs,
\* 2: StatedAs) when they are handled in order from the records store and
\* every target call succeeds
RECURSIVE Expected(_, _, _, _)
Expected(devs, store, what, rule) ==
    IF devs = <<>> THEN 0
    ELSE LET dev == Head(devs)
             as == IF rule = 1 THEN CountedAs(store[dev.device_id], dev.hash)
                   ELSE StatedAs(store[dev.device_id], dev.hash)
         IN (IF as = what THEN 1 ELSE 0)
            + Expected(Tail(devs),
                       [store EXCEPT ![dev.device_id] = SyncedRecord(dev.hash)],
                       what, rule)

TargetFailed == Len(run'.calls) = Len(run.calls) + 1 /\ ~Last(run'.calls).ok

\* C9: a failed target call for device D does not end the run: failed grows
\* by one, the errors gain a message naming D, the loop goes on to the next
\* device (or to the end of the run), every run that ends has attempted each
\* fetched device, and its result has success = FALSE when a device failed.
DeviceErrorIsolated ==
    [][/\ (run.pc = "acquire" /\ run'.pc # "acquire") =>
            /\ run'.pc \in {"device", "finalize"}
            /\ Len(run'.actions) = Len(run.actions) + 1
            /\ run'.mdm_devices = run.mdm_devices
       /\ (DeviceStep /\ TargetFailed) =>
            /\ SeenFailed(run') = SeenFailed(run) + 1
            /\ SeenProcessed(run') = SeenProcessed(run)
            /\ Len(SeenErrors(run')) = Len(SeenErrors(run)) + 1
            /\ Last(SeenErrors(run')).device_id = CurrentDevice.device_id
            /\ Last(run'.actions) = [device_id |-> CurrentDevice.device_id,
                                     action |-> "failed"]
       /\ (run.pc = "finalize" /\ run'.pc = "idle") =>
            /\ Len(run.actions) = Len(run.mdm_devices)
            /\ \A j \in 1..Len(run.actions) :
                    run.actions[j].device_id = run.mdm_devices[j].device_id
            /\ result'.kind = "returned"
            /\ result'.devices_failed =
                    Cardinality({j \in 1..Len(run.actions) : run.actions[j].action = "failed"})
            /\ result'.success = (result'.devices_failed = 0)
            /\ Len(result'.errors) = result'.devices_failed]_vars

\* a failure in the first batch, and the devices after it attempted
DeviceErrorIsolatedWitness ==
    /\ result.kind = "returned"
    /\ ~result.success
    /\ result.devices_failed = 1
    /\ result.devices_processed = 2
    /\ result.errors = <<[device_id |-> 1, text |-> "error"]>>
    /\ sync_records[1].sync_status = "failed"
    /\ sync_records[2].sync_status = "success"
    /\ sync_records[3].sync_status = "success"

\* C10: devices are fetched and target calls made only after both
\* connectivity checks of the run answered true; a run that ends at a
\* connectivity check ends by raising, with its SyncLog row failed and zero
\* devices processed.
ConnectivityGate ==
    /\ [](run.pc \in {"test_glpi", "fetch"} => run.mdm_ok)
    /\ []((run.fetched \/ run.calls # <<>> \/ run.pc \in {"fetch", "device", "acquire", "finalize"})
            => (run.mdm_ok /\ run.glpi_ok))
    /\ [][(run.pc \in {"test_mdm", "test_glpi"} /\ run'.pc # run.pc) =>
            \/ run'.pc = (IF run.pc = "test_mdm" THEN "test_glpi" ELSE "fetch")
            \/ /\ RunAborts
               /\ ~sync_in_progress'
               /\ sync_logs'[run.log].status = "failed"
               /\ sync_logs'[run.log].devices_processed = 0
               /\ sync_logs'[run.log].error_message # <<>>
               /\ sync_records' = sync_records]_vars

ConnectivityGateWitness ==
    /\ result.kind = "raised"
    /\ result.errors = <<"No se puede conectar a GLPI">>
    /\ Len(sync_logs) = 1
    /\ sync_logs[1].status = "failed"
    /\ sync_logs[1].devices_processed = 0
    /\ ~sync_in_progress

\* C4: no window of time_window seconds holds more than max_requests recorded
\* timestamps: at every instant, the timestamps recorded in the window that
\* ends now (ages 0 .. time_window - 1) number at most max_requests.
RateLimiterBound == Len(granted) <= max_requests

RateLimiterBoundWitness ==
    /\ Len(granted) = max_requests
    /\ \E c \in Callers : acq[c].pc = "sleep"

\* C5: every acquire() call eventually returns.
AcquireReturns == \A c \in Callers : (acq[c].pc # "idle") ~> (acq[c].pc = "idle")

\* floor(m * num / den) for m >= 0, by its defining inequalities
Floor(m, num, den) ==
    CHOOSE k \in 0..(m * num) : k * den <= m * num /\ m * num < (k + 1) * den

ErrorReported == consecutive_errors' = consecutive_errors + 1
SuccessReported == consecutive_errors' = 0 /\ consecutive_successes' # consecutive_successes

\* C11: after each report_error() the effective max_requests is
\* floor(previous * backoff_factor), or 1 when that is below 1.
BackoffStep ==
    [][ErrorReported =>
        /\ max_requests' = (IF Floor(max_requests, BackoffNum, BackoffDen) < 1 THEN 1
                            ELSE Floor(max_requests, BackoffNum, BackoffDen))
        /\ original_max_requests' = original_max_requests]_vars

\* both cases: 15 -> 7 (floor of 7.5), then 7 -> 3 -> 1 -> 1
BackoffStepWitness ==
    /\ original_max_requests = 30
    /\ max_requests = 1
    /\ consecutive_errors = 5

\* C12: after 5 consecutive report_success() calls the effective
\* max_requests equals min(original, previous * recovery_factor); fewer
\* than 5 leave it unchanged.
RecoveryExact ==
    [][SuccessReported =>
        IF consecutive_successes + 1 >= SuccessThreshold
        THEN max_requests' * RecoveryDen =
                Min(original_max_requests * RecoveryDen, max_requests * RecoveryNum)
        ELSE max_requests' = max_requests]_vars

\* C13: once no error is reported any more, the successes bring the
\* effective max_requests back to the original limit, and it stays there.
BackoffNotPermanent ==
    (<>[][~ErrorReported]_vars) => <>[](max_requests = original_max_requests)

\* C14: 1 <= max_requests <= original_max_requests after any sequence of
\* reports.
LimitWithinRange == 1 <= max_requests /\ max_requests <= original_max_requests

\* the floor reached from 30, with successes reported since
LimitWithinRangeWitness ==
    /\ original_max_requests = 30
    /\ max_requests = 1
    /\ consecutive_successes = 4

\* C15: when a run returns, its SyncLog row holds the aggregate counts and
\* has status success exactly when failed == 0 (failed otherwise), in
\* agreement with the success flag of the result.
LedgerAgreesWithResult ==
    [][RunReturns =>
        /\ sync_logs'[run.log].devices_processed = result'.devices_processed
        /\ sync_logs'[run.log].devices_created = result'.devices_created
        /\ sync_logs'[run.log].devices_updated = result'.devices_updated
        /\ sync_logs'[run.log].devices_failed = result'.devices_failed
        /\ result'.success = (result'.devices_failed = 0)
        /\ sync_logs'[run.log].status =
                (IF result'.success THEN "success" ELSE "failed")]_vars

\* C16: a SyncLog row is created in_progress by the run that starts; when
\* that run ends, by returning or by raising, its row is success or failed;
\* a finalized row is never modified again, and no row is removed by a run.
SyncLogLifecycle ==
    /\ [](\A j \in 1..Len(sync_logs) :
            (sync_logs[j].status = "in_progress") = (run.pc # "idle" /\ run.log = j))
    /\ [][/\ Len(sync_logs') >= Len(sync_logs)
          /\ Len(sync_logs') > Len(sync_logs) =>
                /\ Len(sync_logs') = Len(sync_logs) + 1
                /\ Last(sync_logs').status = "in_progress"
                /\ ~Last(sync_logs').completed
                /\ run.pc = "idle" /\ run'.pc # "idle"
                /\ run'.log = Len(sync_logs')
          /\ (run.pc # "idle" /\ run'.pc = "idle") =>
                /\ sync_logs'[run.log].status \in {"success", "failed"}
                /\ sync_logs'[run.log].completed
                /\ result'.kind \in {"returned", "raised"}
          /\ \A j \in 1..Len(sync_logs) :
                sync_logs[j].status # "in_progress" => sync_logs'[j] = sync_logs[j]]_vars

\* a run that raised and a run that returned, both finalized
SyncLogLifecycleWitness ==
    /\ Len(sync_logs) = 2
    /\ sync_logs[1].status = "failed"
    /\ sync_logs[1].completed
    /\ sync_logs[2].status = "success"
    /\ sync_logs[2].completed
    /\ sync_logs[2].devices_processed = 2
    /\ run.pc = "idle"

\* the ids a sequence of device ids names
IdSet(ids) == {ids[j] : j \in 1..Len(ids)}

\* the step in which the run in progress gets its device list
FetchStep == run.pc = "fetch" /\ run'.fetched

\* C17: a manual run fetches only devices whose id is in ids, for every
\* value of ids (the empty list included): never the full device set.
ManualFetchesOnlyIds ==
    [][(FetchStep /\ run.sync_type = "manual") =>
        /\ run'.query = "ids"
        /\ \A j \in 1..Len(run'.mdm_devices) :
                run'.mdm_devices[j].device_id \in IdSet(run.device_ids)]_vars

\* C18: every incremental run, the first one and one after a full run
\* included, fetches with the modified-since filter: never the unfiltered
\* device set.
IncrementalAlwaysFiltered ==
    [][(FetchStep /\ run.sync_type = "incremental") =>
        run'.query = "modified_since"]_vars

\* the step in which retry_failed_devices starts its manual run
RetryStarts == run.pc = "idle" /\ run'.pc # "idle" /\ run'.retry

CleanupReturns == result'.kind = "cleanup"

\* C20: cleanup_old_logs deletes only run-ledger rows older than the cutoff
\* and successful SyncRecords older than the cutoff, returns the number of
\* rows deleted, and never deletes a SyncRecord with status failed.
CleanupDeletesOnlyOldSuccess ==
    [][CleanupReturns =>
        /\ \A d \in Devices :
                sync_records'[d] # sync_records[d] =>
                    /\ sync_records'[d] = NoRecord
                    /\ sync_records[d].sync_status = "success"
                    /\ sync_records[d].updated_age > result'.days
        /\ \A d \in Devices :
                sync_records[d].sync_status = "failed" => sync_records'[d] = sync_records[d]
        /\ \E n \in 0..Len(sync_logs) :
                /\ sync_logs' = SubSeq(sync_logs, n + 1, Len(sync_logs))
                /\ \A j \in 1..n : sync_logs[j].started_age > result'.days
        /\ result'.total_deleted =
                (Len(sync_logs) - Len(sync_logs'))
                + Cardinality({d \in Devices : sync_records'[d] # sync_records[d]})]_vars

\* a cleanup that deleted a ledger row and a successful record, and kept a
\* failed record that is older than the cutoff
CleanupWitness ==
    /\ result.kind = "cleanup"
    /\ result.total_deleted = 2
    /\ result.days = 1
    /\ sync_records[1] = NoRecord
    /\ sync_records[2].sync_status = "failed"
    /\ sync_records[2].updated_age = 2
    /\ sync_records[3].sync_status = "success"
    /\ Len(sync_logs) = 1

\* C21: the result of a run holds at most ErrorCap error strings, however
\* many devices failed in the run
ResultErrorsCapped ==
    result.kind = "returned" => Len(result.errors) <= ErrorCap

\* C24: at most one run is active at any time, also among runs started
\* through separately constructed SyncService instances sharing the store
OneRunAtATime ==
    Cardinality({r \in Requests : run[r].pc = "running"}) <= 1

\* C26: the listing returns every parseable device the source holds
AllParseableFetched ==
    result.kind = "listed" =>
        \A j \in 1..Len(run.source) :
            run.source[j].parseable =>
                \E n \in 1..Len(result.devices) :
                    result.devices[n] = run.source[j].device_id

\* the fields the spec names as tracked, as values
Tracked(dev) ==
    <<dev.device_name, dev.model, dev.manufacturer, dev.os_version,
      dev.user_email, dev.user_name, dev.status, dev.is_supervised,
      dev.is_lost_mode, dev.battery_level, dev.storage_total,
      dev.storage_available, dev.phone_number>>

\* C22: two devices that differ in a tracked field have different
\* fingerprints
FingerprintInjective ==
    result.kind = "hashes" /\ Tracked(run.a) # Tracked(run.b) => result.a # result.b

\* C23: two devices equal on every tracked field have the same fingerprint,
\* whatever their untracked fields are, and so has a device with itself
FingerprintPure ==
    result.kind = "hashes" /\ Tracked(run.a) = Tracked(run.b) => result.a = result.b

FingerprintPureWitness ==
    /\ result.kind = "hashes"
    /\ Tracked(run.a) = Tracked(run.b)
    /\ run.a.device_id # run.b.device_id
    /\ run.a.os_type # run.b.os_type
    /\ run.a.user_name = PyNone(<<>>)
    /\ run.a.battery_level = PyInt(50)
    /\ result.a = result.b

\* C25: a status query on an idle engine whose newest SyncLog row was left
\* in_progress by a crash reports that run neither as success nor as in
\* progress
StaleRunSurfaced ==
    /\ result.kind = "status"
    /\ ~sync_in_progress
    /\ sync_logs # <<>>
    /\ Last(sync_logs).status = "in_progress"
    => result.last_sync_log.status \notin {"success", "in_progress"}

\* C27: the upsert of a record after a failed attempt sets status failed and
\* the error text and leaves the record's last fingerprint and target id as
\* they were; a record created by it has neither
FailedUpsertKeepsFingerprint ==
    [][(DeviceStep /\ TargetFailed) =>
            LET d == CurrentDevice.device_id
                old == sync_records[d]
                new == sync_records'[d]
            IN /\ new.sync_status = "failed"
               /\ new.error_message = ErrorText("raise")
               /\ old # NoRecord =>
                    /\ new.last_hash = old.last_hash
                    /\ new.glpi_computer_id = old.glpi_computer_id
               /\ old = NoRecord =>
                    /\ new.last_hash = None
                    /\ new.glpi_computer_id = None
               /\ \A e \in Devices \ {d} : sync_records'[e] = sync_records[e]]_vars

\* a failure after a success of the device, and a failure on first attempt
FailedUpsertWitness ==
    /\ \E d \in Devices :
          /\ sync_records[d] # NoRecord
          /\ sync_records[d].sync_status = "failed"
          /\ sync_records[d].last_hash # None
          /\ sync_records[d].glpi_computer_id = TargetId(d)
    /\ \E d \in Devices :
          /\ sync_records[d] # NoRecord
          /\ sync_records[d].sync_status = "failed"
          /\ sync_records[d].last_hash = None
          /\ sync_records[d].glpi_computer_id = None

\* The retry count of a record.  The SyncRecord of sync_service.py has no
\* such column and _update_sync_record assigns none; the only retry_count of
\* the code is the column of models/database.py, which nothing writes and
\* which holds its default.
retry_count(rec) == 0

\* C28: a failed attempt for a device raises the retry count of its record
\* by one
RetryCountIncrements ==
    [][(DeviceStep /\ TargetFailed) =>
            LET d == CurrentDevice.device_id
            IN retry_count(sync_records'[d]) = retry_count(sync_records[d]) + 1]_vars

\* C29: the engine asks the limiter for a permit only for a device that is
\* not skipped, and a skipped device reports nothing to the limiter
SkipBeforeLimiter ==
    [][/\ (run.pc = "device" /\ run'.pc = "acquire") =>
            ~ShouldSkip(sync_records[CurrentDevice.device_id],
                        calculate_sync_hash(CurrentDevice))
       /\ (DeviceStep /\ Last(run'.actions).action = "skipped") =>
            /\ consecutive_successes' = consecutive_successes
            /\ consecutive_errors' = consecutive_errors
            /\ max_requests' = max_requests]_vars

\* C30: a successful upsert counts as created when the device's record held
\* no target id before the attempt (or there was no record), and as updated
\* when it held one
CreatedIffNoTargetId ==
    [][(DeviceStep /\ Len(run'.calls) = Len(run.calls) + 1 /\ Last(run'.calls).ok) =>
            LET old == sync_records[CurrentDevice.device_id]
            IN Last(run'.actions).action =
                 IF old = NoRecord \/ old.glpi_computer_id = None
                 THEN "created" ELSE "updated"]_vars

\* C31: a sync of device x updates the computer whose id x's record holds
\* and creates one only when the record holds none; it changes no computer
\* that the record of another device holds
UpsertUsesKnownId ==
    [][(run.pc = "target" /\ result'.kind = "synced" /\ run' # run) =>
            LET x == result'.device_id
            IN /\ result'.created = (run.known[x] = None)
               /\ run.known[x] # None => result'.computer_id = run.known[x]
               /\ \A c \in 1..Len(run.computers) :
                     run'.computers[c] # run.computers[c] =>
                        \A y \in DeviceIds \ {x} : run.known[y] # c]_vars

\* C32: the table holds at most one row per external device id
OneRecordPerDevice ==
    \A d \in Devices :
        Cardinality({j \in 1..Len(sync_records) : sync_records[j].mdm_device_id = d}) <= 1

\* every device has its row, one of them written again after a success, and
\* a row was deleted and inserted again (the rows are not in device order)
OneRecordPerDeviceWitness ==
    /\ Len(sync_records) = NumDevices
    /\ \E j \in 1..Len(sync_records) :
          /\ sync_records[j].rec.sync_status = "failed"
          /\ sync_records[j].rec.last_hash # None
    /\ sync_records[1].mdm_device_id = 2
    /\ sync_records[NumDevices].mdm_device_id = 1
    /\ sync_records[NumDevices].rec.updated_age = 0
    /\ sync_records[1].rec.updated_age = MaxAge
    /\ result.kind = "cleanup"

\* C33: the success streak is 0 after each recovery step and the error
\* streak is 0 after each backoff step
StreaksReset ==
    [][/\ (SuccessReported /\ consecutive_successes + 1 >= SuccessThreshold) =>
            consecutive_successes' = 0
       /\ ErrorReported => consecutive_errors' = 0]_vars

\* C34: a device whose record has status failed is not skipped: its device
\* step calls the target, also when the fetched fingerprint is the stored one
FailedNeverSkipped ==
    [][(DeviceStep /\ sync_records[CurrentDevice.device_id] # NoRecord
                   /\ sync_records[CurrentDevice.device_id].sync_status = "failed") =>
            /\ Last(run'.actions).action # "skipped"
            /\ Len(run'.calls) = Len(run.calls) + 1
            /\ Last(run'.calls).device_id = CurrentDevice.device_id]_vars

\* a failed record whose fingerprint is the fetched one was synced again
FailedNeverSkippedWitness ==
    /\ run.pc # "idle"
    /\ run.calls # <<>>
    /\ LET d == Last(run.calls).device_id
           old == run.records0[d]
       IN /\ Last(run.calls).ok
          /\ old # NoRecord
          /\ old.sync_status = "failed"
          /\ old.last_hash # None
          /\ \E j \in 1..Len(run.mdm_devices) :
                /\ run.mdm_devices[j].device_id = d
                /\ run.mdm_devices[j].hash = old.last_hash
          /\ Cardinality({j \in 1..Len(run.calls) : run.calls[j].device_id = d}) = 1
          /\ sync_records[d].sync_status = "success"

\* C35: every started run eventually ends (which convergence of the store
\* to the source requires)
EveryRunEnds == (run.pc # "idle") ~> (run.pc = "idle")

\* C36: when no run is executing, the in-progress flag is false
FlagClearedAfterRun == run.pc = "idle" => ~sync_in_progress

\* C37: while a run handles its devices, the devices handled so far are the
\* first i + k of the list, each once and in order, i is a multiple of the
\* batch size and k is inside the batch; and a run that returns reports
\* processed + failed = number of devices fetched, created + updated <=
\* processed
EachDeviceOnce ==
    [][/\ run.pc \in {"device", "acquire"} =>
            /\ Len(run.actions) = run.i + run.k
            /\ run.i % batch_size = 0
            /\ run.k < BatchLen
            /\ \A j \in 1..Len(run.actions) :
                    run.actions[j].device_id = run.mdm_devices[j].device_id
            /\ SeenProcessed(run) + SeenFailed(run) = Len(run.actions)
       /\ RunReturns =>
            /\ Len(run.actions) = Len(run.mdm_devices)
            /\ \A j \in 1..Len(run.actions) :
                    run.actions[j].device_id = run.mdm_devices[j].device_id
            /\ result'.devices_processed + result'.devices_failed = Len(run.mdm_devices)
            /\ result'.devices_created + result'.devices_updated <= result'.devices_processed
            /\ result'.devices_failed =
                    Cardinality({j \in 1..Len(run.actions) : run.actions[j].action = "failed"})]_vars

\* a run of five full batches and one of a single device: two failures, then
\* the success, then the device is skipped
EachDeviceOnceWitness ==
    /\ result.kind = "returned"
    /\ result.devices_processed = LongRunIds - 2
    /\ result.devices_failed = 2
    /\ result.devices_updated = 1
    /\ result.devices_created = 0

\* C38: an incremental run that follows a completed incremental run selects
\* the device when the device was modified after that run had fetched
NoModificationMissed ==
    [][(run.pc = "idle" /\ run'.pc = "running" /\ run.prev_fetch # None
            /\ run.modified_at # None /\ run.modified_at > run.prev_fetch)
        => run'.selected]_vars

\* C39: no step of a manual run (retry_failed_devices makes one) changes a
\* watermark, no step of a full run the incremental watermark, no step of an
\* incremental run the full watermark, and neither does a call that starts
\* a run, is rejected, or finds nothing to retry
WatermarkFrame ==
    [][/\ run.sync_type \in {"manual", "none"} =>
            /\ last_full_sync' = last_full_sync
            /\ last_incremental_sync' = last_incremental_sync
       /\ run.sync_type = "full" => last_incremental_sync' = last_incremental_sync
       /\ run.sync_type = "incremental" => last_full_sync' = last_full_sync]_vars

\* a manual run has completed after a full run: the full watermark is still
\* that of the full run, the incremental one was never set
WatermarkFrameWitness ==
    /\ Len(sync_logs) = 2
    /\ sync_logs[1].sync_type = "full"
    /\ sync_logs[2].sync_type = "manual"
    /\ sync_logs[2].status = "success"
    /\ result.kind = "returned"
    /\ result.devices_processed = 1
    /\ last_full_sync = 1
    /\ last_incremental_sync = None

\* C40: acquire() records a timestamp only when the timestamps still in the
\* window are fewer than the current max_requests
PermitBelowCurrentLimit ==
    [][acq[Engine].pc = "body" /\ acq'[Engine].pc = "exit" =>
            /\ Len(Prune(requests)) < max_requests
            /\ requests' = Append(Prune(requests), 0)]_vars

\* after a backoff from 3 to 1 the task waits although the window holds only
\* two timestamps
PermitBelowCurrentLimitWitness ==
    /\ original_max_requests = MaxLimit
    /\ max_requests = 1
    /\ consecutive_errors = 1
    /\ Len(requests) = 2
    /\ acq[Engine].pc = "sleep"

====
